---------------------------- MODULE Spec2Model ----------------------------
(***************************************************************************)
(* CompositionImageDemo (src/CompositionImageDemo/main.cpp).                *)
(*                                                                          *)
(* The program is modelled as the interleaving of                           *)
(*   - WinMain's straight-line start-up (lines 89, 96, 103),                *)
(*   - the RegisterForDeviceLost coroutines (one record of insts each),     *)
(*   - the LoadImageIntoSurface coroutines (one record of loads each),      *)
(*   - the environment: a GPU device becoming removed.                      *)
(* A coroutine runs synchronously inside its caller until its first real    *)
(* suspension; an exception that leaves a winrt::fire_and_forget coroutine  *)
(* ends the process (terminated).                                           *)
(***************************************************************************)
EXTENDS Naturals, Sequences, FiniteSets

(* ------------------------------ bounds ------------------------------ *)

\* In the whole program (Spec): GPU devices the platform hands out in one
\* run (the first one included), recoverable failures one
\* RegisterForDeviceLost instance may meet, and the atlas offsets
\* 0..MaxOffset BeginDraw returns.
MaxDevices == 2
MaxFails == 1
MaxOffset == 0

\* In the recovery loop taken alone (SpecLoop): devices and recoverable
\* failures.
MaxLoopDevices == 3
MaxLoopFails == 1

\* In the first load taken alone (SpecImages) decoded images are 1..MaxDim
\* pixels wide and high and BeginDraw returns an offset in 0..MaxImageOffset.
MaxDim == 2
MaxImageOffset == 1

\* Bounds of the recovery loop under fair scheduling (SpecFair): the devices
\* 1..MaxFairRemovals can be removed, and one instance meets at most
\* MaxFairFails recoverable failures.
MaxFairRemovals == 2
MaxFairFails == 1

\* Bounds of the recovery loop with the history of the event's signals
\* (SpecSignals).
MaxSignalDevices == 2
MaxSignalFails == 1

(* ------------------------- program constants ------------------------ *)

\* "Each BGRA pixel is 4 bytes."
BytesPerPixel == 4

\* desc.MipLevels, desc.ArraySize, desc.SampleDesc.Count
MipLevels == 1
ArraySize == 1
SampleCount == 1

\* The drawing surface is created with the minimum size { 1, 1 }.
InitialSurfaceSize == <<1, 1>>

S_OK == "S_OK"
DXGI_ERROR_DEVICE_REMOVED == "DXGI_ERROR_DEVICE_REMOVED"
DXGI_ERROR_DEVICE_RESET == "DXGI_ERROR_DEVICE_RESET"
E_FAIL == "E_FAIL"

\* The results a platform call checked by winrt::check_hresult can have.
HResults == {S_OK, DXGI_ERROR_DEVICE_REMOVED, DXGI_ERROR_DEVICE_RESET, E_FAIL}

Succeeded(hr) == hr = S_OK

(* ------------------------------ state ------------------------------- *)

VARIABLES
    d3dDevices,        \* Seq of "live" | "removed": every device created so far
    renderingDevice,   \* the device bound to the CompositionGraphicsDevice
    deviceLostEvent,   \* the manual-reset event: TRUE = signalled
    insts,             \* Seq of RegisterForDeviceLost coroutine frames
    loads,             \* Seq of LoadImageIntoSurface coroutine frames
    surface,           \* the CompositionDrawingSurface
    image,             \* the decoded frame of tripphoto1.jpg
    mainPc,            \* WinMain's position
    handlerRegistered, \* RenderingDeviceReplaced handler subscribed (line 103)
    terminated         \* the process was ended by an unhandled exception

vars == <<d3dDevices, renderingDevice, deviceLostEvent, insts, loads, surface,
          image, mainPc, handlerRegistered, terminated>>

NoDevice == 0
NoTexture == [device |-> NoDevice]
NoContent == [device |-> NoDevice]

Dims == 1..MaxDim
PixelFormats == {"Bgra8", "Rgba8"}

(* ------------------------------ helpers ----------------------------- *)

InstIds == 1..Len(insts)
LoadIds == 1..Len(loads)
DeviceIds == 1..Len(d3dDevices)

\* The frame of a RegisterForDeviceLost call on device d made by caller c
\* (0 = WinMain), at line 227, still running on its caller's stack.
\* signal and oldSignals are history, kept by the steps taken with
\* history = TRUE: signal says that the removal of this instance's device is
\* in the event's signalled state (raised and not reset since), oldSignals
\* holds the devices whose signal this instance reset.
NewInst(d, c) ==
    [d3dDevice |-> d, pc |-> "register", cookie |-> FALSE, inl |-> TRUE,
     signal |-> FALSE, oldSignals |-> {},
     caller |-> c, newD3dDevice |-> NoDevice, child |-> 0,
     created |-> 0, createFails |-> 0, setFails |-> 0, backoffs |-> 0,
     errorCode |-> S_OK, errorAt |-> "none"]

\* Line 208: d3dDevice->GetImmediateContext, the context of device d.
ImmediateContext(d) == [device |-> d]

\* The frame of a LoadImageIntoSurface call on device d, suspended in
\* CreateTextureFromImageAsync's first co_await.
NewLoad(d) ==
    [d3dDevice |-> d, pc |-> "decoding", imageTexture |-> NoTexture,
     d3dContext |-> ImmediateContext(d),
     offset |-> 0, began |-> 0, endDraws |-> 0, unwinding |-> FALSE,
     staleTexture |-> FALSE, staleCopy |-> FALSE, copiedAtSize |-> <<>>]

\* SetEvent on the manual-reset event satisfies every wait registered on it.
ResumeWaiters(is) ==
    [k \in DOMAIN is |->
        IF is[k].pc = "waiting" THEN [is[k] EXCEPT !.pc = "resumed"] ELSE is[k]]

\* The platform raises the removal signal of device d: the instances
\* registered on d have their signal in the event.
Raise(is, d, history) ==
    [k \in DOMAIN is |->
        IF history /\ is[k].cookie /\ is[k].d3dDevice = d
        THEN [is[k] EXCEPT !.signal = TRUE] ELSE is[k]]

\* The devices whose removal signal is in the event.
Signals == {insts[k].d3dDevice : k \in {n \in DOMAIN insts : insts[n].signal}}

\* A device that was removed and is no longer the rendering device.
Replaced(d) == d3dDevices[d] = "removed" /\ renderingDevice # d

(* ------------------------------- Init ------------------------------- *)

\* The frames the decoder can deliver.
Frames == [PixelWidth : Dims, PixelHeight : Dims, BitmapPixelFormat : PixelFormats]

\* tripphoto1.jpg: a jpg decodes to Bgra8; twice as wide as high.
TripPhoto == [PixelWidth |-> 2, PixelHeight |-> 1, BitmapPixelFormat |-> "Bgra8"]

\* WinMain up to line 88: device 1 created and bound, surface created 1x1.
Init ==
    /\ d3dDevices = <<"live">>
    /\ renderingDevice = 1
    /\ deviceLostEvent = FALSE
    /\ insts = <<>>
    /\ loads = <<>>
    /\ surface = [size |-> InitialSurfaceSize, drawing |-> {}, atlas |-> <<>>,
                  content |-> NoContent]
    /\ image = TripPhoto
    /\ mainPc = "load"
    /\ handlerRegistered = FALSE
    /\ terminated = FALSE

(* --------------------------- environment ---------------------------- *)

\* The GPU device d becomes removed (driver reset, "dxcap -forcetdr").  The
\* platform signals every event registered on d with
\* RegisterDeviceRemovedEvent.
DeviceRemoved(d, history) ==
    /\ ~terminated
    /\ d3dDevices[d] = "live"
    /\ d3dDevices' = [d3dDevices EXCEPT ![d] = "removed"]
    /\ IF \E i \in InstIds : insts[i].cookie /\ insts[i].d3dDevice = d
       THEN /\ deviceLostEvent' = TRUE
            /\ insts' = ResumeWaiters(Raise(insts, d, history))
       ELSE UNCHANGED <<deviceLostEvent, insts>>
    /\ UNCHANGED <<renderingDevice, loads, surface, image, mainPc,
                   handlerRegistered, terminated>>

(* ------------------------------ WinMain ----------------------------- *)

\* Line 89: LoadImageIntoSurface(surface, d3dDevice).
MainLoadImage ==
    /\ ~terminated
    /\ mainPc = "load"
    /\ loads' = Append(loads, NewLoad(1))
    /\ mainPc' = "registerForDeviceLost"
    /\ UNCHANGED <<d3dDevices, renderingDevice, deviceLostEvent, insts, surface,
                   image, handlerRegistered, terminated>>

\* Lines 95-96: the event is created and RegisterForDeviceLost is called; the
\* call returns to WinMain when the coroutine first suspends.
MainRegisterForDeviceLost ==
    /\ ~terminated
    /\ mainPc = "registerForDeviceLost"
    /\ insts' = Append(insts, NewInst(1, 0))
    /\ mainPc' = "subscribe"
    /\ UNCHANGED <<d3dDevices, renderingDevice, deviceLostEvent, loads, surface,
                   image, handlerRegistered, terminated>>

\* Mutant of CalleeReturned: the caller goes on without the callee having
\* reached its first suspension (as if the call were posted to another thread).
CalleeReturned_AtOnce(callee) == TRUE

\* A call of a coroutine (lines 96, 242) returns to its caller when the
\* coroutine first suspends or ends.
CalleeReturned(callee) == ~callee.inl

\* Line 103: the RenderingDeviceReplaced handler is subscribed, then the
\* message pump runs.
MainSubscribe ==
    /\ ~terminated
    /\ mainPc = "subscribe"
    /\ CalleeReturned(insts[1])
    /\ handlerRegistered' = TRUE
    /\ mainPc' = "pump"
    /\ UNCHANGED <<d3dDevices, renderingDevice, deviceLostEvent, insts, loads,
                   surface, image, terminated>>

(* ----------------------- RegisterForDeviceLost ---------------------- *)

\* Mutant of Recoverable: every error code loops around.
Recoverable_Any(errorCode) == TRUE

\* errorCode == DXGI_ERROR_DEVICE_REMOVED || errorCode == DXGI_ERROR_DEVICE_RESET
Recoverable(errorCode) ==
    errorCode = DXGI_ERROR_DEVICE_REMOVED \/ errorCode = DXGI_ERROR_DEVICE_RESET

\* Mutant of AfterRecoverable: the loop goes around without waiting.
AfterRecoverable_NoBackoff == "create"

\* Where the loop goes after a recoverable error was caught: the co_await of
\* line 264.
AfterRecoverable == "backoff"

\* Where the loop goes when the backoff is over: the top of while (true).
AfterBackoff == "create"

\* The device the loop hands to the new RegisterForDeviceLost (line 242).
SpawnDevice(self) == self.newD3dDevice

\* Mutant of NewD3dDevice: the device made by the first pass of the loop is
\* kept for the later passes.
NewD3dDevice_Kept(self, devices) ==
    IF self.newD3dDevice # NoDevice THEN self.newD3dDevice ELSE Len(devices) + 1

\* Line 241: newD3dDevice is the device CreateD3DDevice has just made, a
\* local of the try block.
NewD3dDevice(self, devices) == Len(devices) + 1

\* The catch block of lines 250-262 for instance i, entered from step `at`
\* with error code hr; is is the instance sequence to update.
Catch(is, i, hr, at) ==
    IF Recoverable(hr)
    THEN [is EXCEPT ![i] = [@ EXCEPT !.pc = AfterRecoverable, !.inl = FALSE,
                                      !.errorCode = hr, !.errorAt = at,
                                      !.createFails = IF at = "create" THEN @ + 1 ELSE @,
                                      !.setFails = IF at = "set" THEN @ + 1 ELSE @]]
    ELSE [is EXCEPT ![i] = [@ EXCEPT !.pc = "fatal", !.errorCode = hr, !.errorAt = at]]

\* Lines 225-227: RegisterDeviceRemovedEvent.  A failure leaves the coroutine
\* as an unhandled exception.  Registering on a device that is already
\* removed signals the event at once.
Register(i, history) ==
    /\ ~terminated
    /\ insts[i].pc = "register"
    /\ \E hr \in {S_OK, E_FAIL} :
         IF Succeeded(hr)
         THEN /\ LET is == [insts EXCEPT ![i] = [@ EXCEPT !.pc = "await", !.cookie = TRUE]]
                     gone == d3dDevices[insts[i].d3dDevice] = "removed"
                 IN  /\ insts' = IF gone
                                  THEN ResumeWaiters(Raise(is, insts[i].d3dDevice, history))
                                  ELSE is
                     /\ deviceLostEvent' = (deviceLostEvent \/ gone)
              /\ UNCHANGED terminated
         ELSE /\ insts' = [insts EXCEPT ![i] = [@ EXCEPT !.pc = "fatal", !.errorCode = hr,
                                                          !.errorAt = "register"]]
              /\ terminated' = TRUE
              /\ UNCHANGED deviceLostEvent
    /\ UNCHANGED <<d3dDevices, renderingDevice, loads, surface, image, mainPc,
                   handlerRegistered>>

\* Line 232: co_await winrt::resume_on_signal.  await_ready finds the event
\* signalled and the coroutine goes on in its caller's stack, or the wait is
\* registered and the coroutine suspends, returning to its caller.
Await(i) ==
    /\ ~terminated
    /\ insts[i].pc = "await"
    /\ insts' = [insts EXCEPT ![i] =
                    IF deviceLostEvent
                    THEN [@ EXCEPT !.pc = "resumed"]
                    ELSE [@ EXCEPT !.pc = "waiting", !.inl = FALSE]]
    /\ UNCHANGED <<d3dDevices, renderingDevice, deviceLostEvent, loads, surface,
                   image, mainPc, handlerRegistered, terminated>>

\* Mutant of Reset: the event is left as it was.
Reset_Omitted(signalled) == signalled

\* ResetEvent puts a manual-reset event into the non-signalled state.
Reset(signalled) == FALSE

\* Line 233: deviceLostEvent.ResetEvent().
ResetEvent(i, history) ==
    /\ ~terminated
    /\ insts[i].pc = "resumed"
    /\ deviceLostEvent' = Reset(deviceLostEvent)
    /\ insts' = [k \in DOMAIN insts |->
                    IF k = i
                    THEN [insts[k] EXCEPT !.pc = "unregister",
                                          !.signal = Reset(@),
                                          !.oldSignals = IF history THEN @ \cup Signals ELSE @]
                    ELSE [insts[k] EXCEPT !.signal = Reset(@)]]
    /\ UNCHANGED <<d3dDevices, renderingDevice, loads, surface, image, mainPc,
                   handlerRegistered, terminated>>

\* Line 234: d3dDevice4->UnregisterDeviceRemoved(cookie).
Unregister(i) ==
    /\ ~terminated
    /\ insts[i].pc = "unregister"
    /\ insts' = [insts EXCEPT ![i] = [@ EXCEPT !.pc = "create", !.cookie = FALSE]]
    /\ UNCHANGED <<d3dDevices, renderingDevice, deviceLostEvent, loads, surface,
                   image, mainPc, handlerRegistered, terminated>>

\* Line 241: util::CreateD3DDevice() inside the try block.
CreateD3DDevice(i, maxDevices, maxFails) ==
    /\ ~terminated
    /\ insts[i].pc = "create"
    /\ \E hr \in HResults :
         IF Succeeded(hr)
         THEN /\ Len(d3dDevices) < maxDevices
              /\ d3dDevices' = Append(d3dDevices, "live")
              /\ insts' = [insts EXCEPT ![i] =
                              [@ EXCEPT !.pc = "spawn",
                                        !.newD3dDevice = NewD3dDevice(insts[i], d3dDevices),
                                        !.created = @ + 1]]
              /\ UNCHANGED terminated
         ELSE /\ Recoverable(hr) => insts[i].createFails + insts[i].setFails < maxFails
              /\ insts' = Catch(insts, i, hr, "create")
              /\ terminated' = ~Recoverable(hr)
              /\ UNCHANGED d3dDevices
    /\ UNCHANGED <<renderingDevice, deviceLostEvent, loads, surface, image,
                   mainPc, handlerRegistered>>

\* Line 242: RegisterForDeviceLost(deviceLostEvent, newD3dDevice, compGraphics)
\* is called; this instance goes on when the callee first suspends.
Spawn(i) ==
    /\ ~terminated
    /\ insts[i].pc = "spawn"
    /\ insts' = Append([insts EXCEPT ![i] = [@ EXCEPT !.pc = "set",
                                                      !.child = Len(insts) + 1]],
                       NewInst(SpawnDevice(insts[i]), i))
    /\ UNCHANGED <<d3dDevices, renderingDevice, deviceLostEvent, loads, surface,
                   image, mainPc, handlerRegistered, terminated>>

\* Mutant of AfterSet: the loop has no break and goes around after the wait
\* of line 264.
AfterSet_NoBreak == "backoff"

\* Line 248: break leaves while (true) and the coroutine ends.
AfterSet == "done"

\* Lines 245-248: SetRenderingDevice(newD3dDevice).  On success the
\* RenderingDeviceReplaced handler, when subscribed, runs inside the call
\* (lines 103-110): it reads the rendering device and calls
\* LoadImageIntoSurface with it; then the loop breaks and the coroutine ends.
SetRenderingDevice(i, maxFails) ==
    /\ ~terminated
    /\ insts[i].pc = "set"
    /\ CalleeReturned(insts[insts[i].child])
    /\ \E hr \in HResults :
         IF Succeeded(hr)
         THEN /\ renderingDevice' = insts[i].newD3dDevice
              /\ loads' = IF handlerRegistered
                          THEN Append(loads, NewLoad(renderingDevice'))
                          ELSE loads
              /\ insts' = [insts EXCEPT ![i] = [@ EXCEPT !.pc = AfterSet, !.inl = FALSE]]
              /\ UNCHANGED terminated
         ELSE /\ Recoverable(hr) => insts[i].createFails + insts[i].setFails < maxFails
              /\ insts' = Catch(insts, i, hr, "set")
              /\ terminated' = ~Recoverable(hr)
              /\ UNCHANGED <<renderingDevice, loads>>
    /\ UNCHANGED <<d3dDevices, deviceLostEvent, surface, image, mainPc,
                   handlerRegistered>>

\* Line 264: co_await std::chrono::milliseconds(500), then around the loop.
Backoff(i) ==
    /\ ~terminated
    /\ insts[i].pc = "backoff"
    /\ insts' = [insts EXCEPT ![i] = [@ EXCEPT !.pc = AfterBackoff, !.backoffs = @ + 1,
                                               !.errorCode = S_OK, !.errorAt = "none"]]
    /\ UNCHANGED <<d3dDevices, renderingDevice, deviceLostEvent, loads, surface,
                   image, mainPc, handlerRegistered, terminated>>

(* -------------------- CreateTextureFromImageAsync ------------------- *)

\* Mutant of TextureDesc: width and height exchanged.
TextureDesc_Swapped(frame) ==
    [Width |-> frame.PixelHeight, Height |-> frame.PixelWidth,
     MipLevels |-> MipLevels, ArraySize |-> ArraySize,
     Format |-> "B8G8R8A8_UNORM", SampleCount |-> SampleCount]

\* Lines 149-155: the D3D11_TEXTURE2D_DESC built from the decoded frame.
TextureDesc(frame) ==
    [Width |-> frame.PixelWidth, Height |-> frame.PixelHeight,
     MipLevels |-> MipLevels, ArraySize |-> ArraySize,
     Format |-> "B8G8R8A8_UNORM", SampleCount |-> SampleCount]

\* Line 161: initData.SysMemPitch = width * 4.  The product stays below 2^32:
\* the pixel buffer, width * height * 4 bytes, is indexed by a 32-bit size.
SysMemPitch(frame) == frame.PixelWidth * BytesPerPixel

\* Line 163: the texture CreateTexture2D makes on device d from desc and
\* initData (pSysMem = the frame's bytes).
CreateTexture2D(d, frame) ==
    [device |-> d, desc |-> TextureDesc(frame), pitch |-> SysMemPitch(frame),
     pixels |-> frame]

\* Mutant of UploadDevice: the texture is made on whatever device is the
\* rendering device when the decoding is over.
UploadDevice_Current(self) == renderingDevice

\* Lines 126 and 210: CreateTextureFromImageAsync copies the device it was
\* called with, the device of the LoadImageIntoSurface call, before its first
\* suspension and creates the texture on that copy.
UploadDevice(self) == self.d3dDevice

\* Lines 123-166 and the resumption of LoadImageIntoSurface at line 210: the
\* file is opened and decoded, the texture is created on the device the
\* coroutine copied at line 126.  WINRT_ASSERT (line 143) stops a debug build
\* on another pixel format and is empty in a release build.  CreateTexture2D
\* fails on a removed device.  Any failure reaches LoadImageIntoSurface as an
\* exception and ends the process.
CreateTextureFromImageAsync(l) ==
    /\ ~terminated
    /\ loads[l].pc = "decoding"
    /\ \E decoded \in BOOLEAN, asserts \in BOOLEAN, hr \in {S_OK, E_FAIL} :
         LET d == UploadDevice(loads[l])
             ok == /\ decoded
                   /\ ~(asserts /\ image.BitmapPixelFormat # "Bgra8")
                   /\ Succeeded(hr)
                   /\ d3dDevices[d] = "live"
         IN  /\ loads' = [loads EXCEPT ![l] =
                            IF ok
                            THEN [@ EXCEPT !.pc = "resize",
                                           !.imageTexture = CreateTexture2D(d, image),
                                           !.staleTexture = Replaced(d)]
                            ELSE [@ EXCEPT !.pc = "threw"]]
             /\ terminated' = ~ok
    /\ UNCHANGED <<d3dDevices, renderingDevice, deviceLostEvent, insts, surface,
                   image, mainPc, handlerRegistered>>

(* ---------------- CopyTexutreIntoCompositionSurface ----------------- *)

\* Mutant of SurfaceSize: width and height exchanged.
SurfaceSize_Swapped(desc) == <<desc.Height, desc.Width>>

\* Lines 177-179: the size handed to Resize, from the source texture's desc.
SurfaceSize(desc) == <<desc.Width, desc.Height>>

\* Mutant of AfterCopy: EndDraw is a plain call after the copy, skipped when
\* the copy step throws.
AfterCopy_NoScopeExit(threw) == IF threw THEN "threw" ELSE "endDraw"

\* Lines 187-190: the scope_exit runs EndDraw however the scope is left;
\* threw = the copy step left it by an exception.
AfterCopy(threw) == "endDraw"

\* Mutant of CopyDestination: the copy goes to the origin of the atlas
\* texture.
CopyDestination_Origin(self) == 0

\* Lines 193-197: the copy's destination in surfaceTexture: offset.x,
\* offset.y as BeginDraw stored them in the local offset.
CopyDestination(self) == self.offset

\* Lines 174-179: surfaceInterop->Resize to the texture's size.
Resize(l) ==
    /\ ~terminated
    /\ loads[l].pc = "resize"
    /\ \E hr \in {S_OK, E_FAIL} :
         IF Succeeded(hr)
         THEN /\ surface' = [surface EXCEPT
                                !.size = SurfaceSize(loads[l].imageTexture.desc)]
              /\ loads' = [loads EXCEPT ![l] = [@ EXCEPT !.pc = "beginDraw"]]
              /\ UNCHANGED terminated
         ELSE /\ loads' = [loads EXCEPT ![l] = [@ EXCEPT !.pc = "threw"]]
              /\ terminated' = TRUE
              /\ UNCHANGED surface
    /\ UNCHANGED <<d3dDevices, renderingDevice, deviceLostEvent, insts, image,
                   mainPc, handlerRegistered>>

\* Lines 183-185: BeginDraw yields the atlas texture and an offset in it.
\* The surface keeps, in atlas, the offset it handed to each open session.
BeginDraw(l, maxOffset) ==
    /\ ~terminated
    /\ loads[l].pc = "beginDraw"
    /\ \E hr \in {S_OK, E_FAIL}, off \in 0..maxOffset :
         IF Succeeded(hr)
         THEN /\ surface' = [surface EXCEPT
                                !.drawing = @ \cup {l},
                                !.atlas = [m \in surface.drawing \cup {l} |->
                                             IF m = l THEN off ELSE surface.atlas[m]]]
              /\ loads' = [loads EXCEPT ![l] = [@ EXCEPT !.pc = "copy", !.offset = off,
                                                         !.began = @ + 1]]
              /\ UNCHANGED terminated
         ELSE /\ loads' = [loads EXCEPT ![l] = [@ EXCEPT !.pc = "threw"]]
              /\ terminated' = TRUE
              /\ UNCHANGED surface
    /\ UNCHANGED <<d3dDevices, renderingDevice, deviceLostEvent, insts, image,
                   mainPc, handlerRegistered>>

\* Lines 192-200: d3dContext->CopySubresourceRegion of the whole source
\* texture to the offset BeginDraw returned; d3dContext is the immediate
\* context of the coroutine's device (line 208).  The local offset is not
\* read again and is dropped from the frame.  With history = TRUE the
\* content keeps where the copy went and where the session's region is.
CopySubresourceRegion(l, history) ==
    /\ ~terminated
    /\ loads[l].pc = "copy"
    /\ \E threw \in BOOLEAN :
         loads' = [loads EXCEPT ![l] =
                     [@ EXCEPT !.pc = AfterCopy(threw), !.unwinding = threw,
                               !.offset = 0,
                               !.staleCopy = Replaced(loads[l].d3dDevice),
                               !.copiedAtSize = surface.size]]
    /\ surface' = [surface EXCEPT !.content =
                      [device |-> loads[l].imageTexture.device,
                       context |-> loads[l].d3dContext.device,
                       size |-> SurfaceSize(loads[l].imageTexture.desc),
                       pixels |-> loads[l].imageTexture.pixels,
                       at |-> IF history THEN CopyDestination(loads[l]) ELSE 0,
                       sessionAt |-> IF history THEN surface.atlas[l] ELSE 0,
                       subresource |-> 0]]
    /\ UNCHANGED <<d3dDevices, renderingDevice, deviceLostEvent, insts, image,
                   mainPc, handlerRegistered, terminated>>

\* Lines 187-190: the scope_exit calls EndDraw.  An error of EndDraw is
\* thrown inside the destructor and ends the process there; a pending
\* exception of the copy step goes on to leave the coroutine.
EndDraw(l) ==
    /\ ~terminated
    /\ loads[l].pc = "endDraw"
    /\ \E hr \in {S_OK, E_FAIL} :
         IF Succeeded(hr)
         THEN /\ surface' = [surface EXCEPT
                                !.drawing = @ \ {l},
                                !.atlas = [m \in surface.drawing \ {l} |-> surface.atlas[m]]]
              /\ loads' = [loads EXCEPT ![l] =
                              [@ EXCEPT !.pc = IF loads[l].unwinding THEN "threw" ELSE "done",
                                        !.endDraws = @ + 1]]
              /\ terminated' = loads[l].unwinding
         ELSE /\ loads' = [loads EXCEPT ![l] = [@ EXCEPT !.pc = "failfast",
                                                         !.endDraws = @ + 1]]
              /\ terminated' = TRUE
              /\ UNCHANGED surface
    /\ UNCHANGED <<d3dDevices, renderingDevice, deviceLostEvent, insts, image,
                   mainPc, handlerRegistered>>

(* ------------------------------- Spec ------------------------------- *)

\* The whole program.
Next ==
    \/ \E d \in DeviceIds : DeviceRemoved(d, FALSE)
    \/ MainLoadImage
    \/ MainRegisterForDeviceLost
    \/ MainSubscribe
    \/ \E i \in InstIds : Register(i, FALSE)
    \/ \E i \in InstIds : Await(i)
    \/ \E i \in InstIds : ResetEvent(i, FALSE)
    \/ \E i \in InstIds : Unregister(i)
    \/ \E i \in InstIds : CreateD3DDevice(i, MaxDevices, MaxFails)
    \/ \E i \in InstIds : Spawn(i)
    \/ \E i \in InstIds : SetRenderingDevice(i, MaxFails)
    \/ \E i \in InstIds : Backoff(i)
    \/ \E l \in LoadIds : CreateTextureFromImageAsync(l)
    \/ \E l \in LoadIds : Resize(l)
    \/ \E l \in LoadIds : BeginDraw(l, MaxOffset)
    \/ \E l \in LoadIds : CopySubresourceRegion(l, FALSE)
    \/ \E l \in LoadIds : EndDraw(l)

Spec == Init /\ [][Next]_vars

\* The recovery loop taken alone, with larger bounds: the load coroutines
\* started by lines 89 and 109 stay suspended.  No load step writes a
\* variable a loop step reads other than terminated, which only stops the
\* loop, so the loop passes through the same states as in the whole program.
NextLoop ==
    \/ \E d \in DeviceIds : DeviceRemoved(d, FALSE)
    \/ MainLoadImage
    \/ MainRegisterForDeviceLost
    \/ MainSubscribe
    \/ \E i \in InstIds : Register(i, FALSE)
    \/ \E i \in InstIds : Await(i)
    \/ \E i \in InstIds : ResetEvent(i, FALSE)
    \/ \E i \in InstIds : Unregister(i)
    \/ \E i \in InstIds : CreateD3DDevice(i, MaxLoopDevices, MaxLoopFails)
    \/ \E i \in InstIds : Spawn(i)
    \/ \E i \in InstIds : SetRenderingDevice(i, MaxLoopFails)
    \/ \E i \in InstIds : Backoff(i)

SpecLoop == Init /\ [][NextLoop]_vars

\* The first LoadImageIntoSurface taken alone, over every frame the decoder
\* can deliver.
InitImages ==
    /\ d3dDevices = <<"live">>
    /\ renderingDevice = 1
    /\ deviceLostEvent = FALSE
    /\ insts = <<>>
    /\ loads = <<>>
    /\ surface = [size |-> InitialSurfaceSize, drawing |-> {}, atlas |-> <<>>,
                  content |-> NoContent]
    /\ image \in Frames
    /\ mainPc = "load"
    /\ handlerRegistered = FALSE
    /\ terminated = FALSE

NextLoad ==
    \/ \E d \in DeviceIds : DeviceRemoved(d, FALSE)
    \/ MainLoadImage
    \/ \E l \in LoadIds : CreateTextureFromImageAsync(l)
    \/ \E l \in LoadIds : Resize(l)
    \/ \E l \in LoadIds : BeginDraw(l, MaxImageOffset)
    \/ \E l \in LoadIds : CopySubresourceRegion(l, TRUE)
    \/ \E l \in LoadIds : EndDraw(l)

SpecImages == InitImages /\ [][NextLoad]_vars

\* The recovery loop under fair scheduling.  Only the first MaxFairRemovals
\* devices are ever removed, so the event is set at most MaxFairRemovals
\* times; an instance started by a woken instance can itself be woken only by
\* a later firing, and a woken instance makes at most MaxFairFails + 1 devices
\* and instances, which bounds the devices by FairDevices(MaxFairRemovals).
RECURSIVE FairDevices(_)
FairDevices(firings) ==
    IF firings = 0 THEN 1 ELSE 1 + (MaxFairFails + 1) * FairDevices(firings - 1)

FairDeviceRemoved(d) ==
    /\ d <= MaxFairRemovals
    /\ DeviceRemoved(d, FALSE)

\* The steps of WinMain.
MainStep ==
    \/ MainLoadImage
    \/ MainRegisterForDeviceLost
    \/ MainSubscribe

\* The steps of the RegisterForDeviceLost instance i.
InstStep(i) ==
    /\ i \in InstIds
    /\ \/ Register(i, FALSE)
       \/ Await(i)
       \/ ResetEvent(i, FALSE)
       \/ Unregister(i)
       \/ CreateD3DDevice(i, FairDevices(MaxFairRemovals), MaxFairFails)
       \/ Spawn(i)
       \/ SetRenderingDevice(i, MaxFairFails)
       \/ Backoff(i)

NextFair ==
    \/ \E d \in DeviceIds : FairDeviceRemoved(d)
    \/ MainStep
    \/ \E i \in InstIds : InstStep(i)

\* WinMain's thread and the thread each coroutine runs on are scheduled, and
\* the 500 ms timer fires: a step that stays possible is taken.  The removal
\* of a device is up to the environment.
SpecFair ==
    /\ Init
    /\ [][NextFair]_vars
    /\ WF_vars(MainStep)
    /\ \A i \in 1..FairDevices(MaxFairRemovals) : WF_vars(InstStep(i))

\* The recovery loop with the history of the event's signals.
NextSignals ==
    \/ \E d \in DeviceIds : DeviceRemoved(d, TRUE)
    \/ MainLoadImage
    \/ MainRegisterForDeviceLost
    \/ MainSubscribe
    \/ \E i \in InstIds : Register(i, TRUE)
    \/ \E i \in InstIds : Await(i)
    \/ \E i \in InstIds : ResetEvent(i, TRUE)
    \/ \E i \in InstIds : Unregister(i)
    \/ \E i \in InstIds : CreateD3DDevice(i, MaxSignalDevices, MaxSignalFails)
    \/ \E i \in InstIds : Spawn(i)
    \/ \E i \in InstIds : SetRenderingDevice(i, MaxSignalFails)
    \/ \E i \in InstIds : Backoff(i)

SpecSignals == Init /\ [][NextSignals]_vars

(* ------------------------------ claims ------------------------------ *)

CreationAttempts(self) == self.created + self.createFails
RecoverableFailures(self) == self.createFails + self.setFails
Children(i) == {j \in InstIds : insts[j].caller = i}
Armed(j) == insts[j].cookie /\ insts[j].pc = "waiting"
InSurfaceCopy(l) == loads[l].pc \in {"beginDraw", "copy", "endDraw"}

\* C1: an instance woken by the removal signal has, when it ends, created
\* exactly one new device and started exactly one new RegisterForDeviceLost
\* instance, on every path through the rebuild loop.
C1_OneDeviceOneInstance ==
    \A i \in InstIds :
        insts[i].pc = "done" =>
            /\ insts[i].created = 1
            /\ Cardinality(Children(i)) = 1

C3_FatalCreationNotRetried ==
    \A i \in InstIds :
        LET self == insts[i]
        IN  (/\ self.errorAt = "create"
             /\ self.errorCode \notin {DXGI_ERROR_DEVICE_REMOVED, DXGI_ERROR_DEVICE_RESET})
            => /\ self.pc = "fatal"
               /\ terminated
               /\ self.backoffs = RecoverableFailures(self)
               /\ CreationAttempts(self) = RecoverableFailures(self)

C3_Witness ==
    \E i \in InstIds :
        /\ insts[i].pc = "fatal"
        /\ insts[i].errorAt = "create"
        /\ insts[i].errorCode = E_FAIL
        /\ RecoverableFailures(insts[i]) = MaxLoopFails

\* C4: at most one draw session is open on the surface, and while a load
\* holds it no other load is inside its Surface Copy (between its Resize and
\* its EndDraw).
C4_CopiesNeverOverlap ==
    /\ Cardinality(surface.drawing) <= 1
    /\ \A l \in surface.drawing :
          \A m \in LoadIds \ {l} : ~InSurfaceCopy(m)

\* C5: no texture is created on a device that was removed and replaced as
\* the rendering device, and no copy into the surface uses the context or a
\* texture of such a device.
C5_ReplacedDeviceNeverUsed ==
    \A l \in LoadIds : ~loads[l].staleTexture /\ ~loads[l].staleCopy

\* C6: every successful SetRenderingDevice of a recovery loop instance has
\* started exactly one LoadImageIntoSurface on the device it bound.
C6_EveryRebindStartsOneLoad ==
    \A i \in InstIds :
        insts[i].pc = "done" =>
            Cardinality({l \in LoadIds : loads[l].d3dDevice = insts[i].newD3dDevice}) = 1

\* C7: EndDraw is called once in a Surface Copy whose BeginDraw succeeded,
\* before the call returns or lets an error out, and the surface is then no
\* longer drawn by that call; EndDraw is never called without a successful
\* BeginDraw.
C7_EndDrawOncePerBeginDraw ==
    \A l \in LoadIds :
        /\ loads[l].endDraws <= loads[l].began
        /\ loads[l].began <= 1
        /\ loads[l].pc \in {"done", "threw"} =>
              /\ loads[l].endDraws = loads[l].began
              /\ l \notin surface.drawing
        /\ loads[l].pc = "done" => loads[l].began = 1

C7_Witness ==
    \E l \in LoadIds :
        /\ loads[l].pc = "threw"
        /\ loads[l].unwinding
        /\ loads[l].began = 1
        /\ loads[l].endDraws = 1

\* C8: the surface has the source texture's width and height, those of the
\* decoded image, from the Resize of a Surface Copy on: when draw access is
\* acquired, when the copy is made and when the call has returned.
C8_ResizedBeforeCopy ==
    \A l \in LoadIds :
        LET desc == loads[l].imageTexture.desc
        IN  /\ loads[l].pc \in {"beginDraw", "copy", "endDraw", "done"} =>
                  /\ surface.size = <<desc.Width, desc.Height>>
                  /\ surface.size = <<image.PixelWidth, image.PixelHeight>>
            /\ loads[l].copiedAtSize # <<>> =>
                  loads[l].copiedAtSize = <<desc.Width, desc.Height>>

C8_Witness ==
    \E l \in LoadIds :
        /\ loads[l].pc = "done"
        /\ loads[l].copiedAtSize = <<image.PixelWidth, image.PixelHeight>>
        /\ surface.size # InitialSurfaceSize

\* C9: on a live device at most one RegisterForDeviceLost instance is
\* registered and waiting on the removal event.
C9_OneWaiterPerDevice ==
    \A d \in DeviceIds :
        d3dDevices[d] = "live" =>
            Cardinality({i \in InstIds : insts[i].d3dDevice = d /\ Armed(i)}) <= 1

C9_Witness ==
    \E i, j \in InstIds :
        /\ i # j
        /\ Armed(i) /\ Armed(j)
        /\ d3dDevices[insts[i].d3dDevice] = "live"
        /\ d3dDevices[insts[j].d3dDevice] = "live"

\* C10: the texture made from a Bgra8 frame of width W and height H has
\* Width W, Height H, one mip level, one array slice, sample count 1, and
\* is initialised from the frame's bytes with row pitch W * 4.
C10_TextureMatchesFrame ==
    \A l \in LoadIds :
        (loads[l].imageTexture # NoTexture /\ image.BitmapPixelFormat = "Bgra8") =>
            LET tex == loads[l].imageTexture
            IN  /\ tex.desc.Width = image.PixelWidth
                /\ tex.desc.Height = image.PixelHeight
                /\ tex.desc.MipLevels = 1
                /\ tex.desc.ArraySize = 1
                /\ tex.desc.SampleCount = 1
                /\ tex.pitch = image.PixelWidth * 4
                /\ tex.pixels = image

C10_Witness ==
    \E l \in LoadIds :
        /\ loads[l].imageTexture # NoTexture
        /\ image.BitmapPixelFormat = "Bgra8"
        /\ image.PixelWidth = MaxDim
        /\ image.PixelHeight = 1

\* C11: when the first LoadImageIntoSurface has completed and its device
\* was not lost, the surface has the image's width and height and holds the
\* whole uploaded texture (the image's bytes, subresource 0, unscaled) at
\* the offset the surface handed to the draw session of that copy.
C11_SurfaceHoldsImage ==
    (/\ Len(loads) >= 1
     /\ loads[1].pc = "done"
     /\ d3dDevices[1] = "live")
    => /\ surface.size = <<image.PixelWidth, image.PixelHeight>>
       /\ surface.content.device = 1
       /\ surface.content.pixels = image
       /\ surface.content.size = <<image.PixelWidth, image.PixelHeight>>
       /\ surface.content.subresource = 0
       /\ surface.content.at = surface.content.sessionAt

C11_Witness ==
    /\ Len(loads) >= 1
    /\ loads[1].pc = "done"
    /\ d3dDevices[1] = "live"
    /\ surface.content.sessionAt = MaxImageOffset
    /\ image.PixelWidth # image.PixelHeight

C13_ResetUnregisterThenCreate ==
    \A i \in InstIds :
        /\ insts[i].pc \in {"resumed", "unregister"} =>
               insts[i].cookie /\ CreationAttempts(insts[i]) = 0
        /\ insts[i].pc = "resumed" => insts[i].oldSignals = {}
        /\ insts[i].pc \in {"create", "spawn", "set", "backoff", "done"} =>
               ~insts[i].cookie
        /\ \A j \in Children(i) :
               insts[j].pc = "register" => insts[i].oldSignals \cap Signals = {}

C13_Witness ==
    \E i \in InstIds : \E j \in Children(i) :
        /\ insts[j].pc = "register"
        /\ insts[i].oldSignals = {insts[i].d3dDevice}
        /\ insts[i].created = 1
        /\ ~deviceLostEvent

\* C14: at most one device has the event registered on it, and at most one
\* instance is waiting on the event.
C14_OneRegistrationOneWaiter ==
    /\ Cardinality({insts[i].d3dDevice : i \in {k \in InstIds : insts[k].cookie}}) <= 1
    /\ Cardinality({i \in InstIds : insts[i].pc = "waiting"}) <= 1

\* C15: no removal signal is lost: an instance that is registered on a
\* removed device and has not been woken still has that device's signal in
\* the event; no ResetEvent of another instance has cleared it.
C15_NoSignalLost ==
    \A k \in InstIds :
        (/\ insts[k].cookie
         /\ insts[k].pc \in {"await", "waiting"}
         /\ d3dDevices[insts[k].d3dDevice] = "removed")
        => deviceLostEvent

\* An instance that has gone past the reset of line 233.
PastReset(self) ==
    self.pc \in {"unregister", "create", "spawn", "set", "backoff", "done", "fatal"}

\* What an ended instance did: its creations, registration, reset and rebind.
Deeds(self) ==
    <<self.pc, self.cookie, self.oldSignals, self.created, self.createFails,
      self.newD3dDevice, self.child, self.setFails, self.backoffs>>

\* C16: an instance never waits on or resets the event again once it has
\* reset it, the step in which its SetRenderingDevice succeeds ends it, an
\* ended instance does nothing more, and under fair scheduling every
\* woken instance ends in this way unless an unrecoverable error ends the
\* process.
C16_OneFiringPerInstance ==
    /\ [][\A i \in InstIds :
            /\ PastReset(insts[i]) => PastReset(insts'[i])
            /\ (/\ insts[i].pc = "set"
                /\ renderingDevice' # renderingDevice
                /\ renderingDevice' = insts[i].newD3dDevice) =>
                   insts'[i].pc = "done"
            /\ insts[i].pc = "done" =>
                   /\ Deeds(insts'[i]) = Deeds(insts[i])
                   /\ renderingDevice' # renderingDevice =>
                          renderingDevice' # insts[i].newD3dDevice]_vars
    /\ \A i \in 1..FairDevices(MaxFairRemovals) :
           (i <= Len(insts) /\ insts[i].pc = "resumed")
               ~> (i <= Len(insts) /\ (insts[i].pc = "done" \/ terminated))

C16_Witness ==
    \E i \in InstIds :
        /\ insts[i].pc = "done"
        /\ insts[i].backoffs = MaxFairFails
        /\ insts[insts[i].child].pc = "done"
        /\ renderingDevice = insts[insts[i].child].newD3dDevice

\* C17: a load that has entered its Surface Copy holds the texture its
\* Texture Upload made, and that texture and the context used for the copy
\* both come from the device the load was called with; what the surface
\* holds was copied by a context of the texture's device.
C17_CopyUsesTheLoadsDevice ==
    /\ \A l \in LoadIds :
           loads[l].pc \in {"resize", "beginDraw", "copy", "endDraw", "done"} =>
               /\ loads[l].imageTexture # NoTexture
               /\ loads[l].imageTexture.device = loads[l].d3dDevice
               /\ loads[l].d3dContext.device = loads[l].d3dDevice
    /\ surface.content # NoContent =>
           surface.content.context = surface.content.device

C17_Witness ==
    \E l \in LoadIds :
        /\ l > 1
        /\ loads[l].pc = "done"
        /\ loads[l].d3dDevice # 1
        /\ loads[1].pc = "done"
        /\ surface.content.context = loads[l].d3dDevice

=============================================================================
